---- MODULE Spec2Model ----
(***************************************************************************)
(* deadpool-sqlite: the Manager that creates and recycles SQLite           *)
(* connections wrapped in a SyncWrapper (sqlite/src/lib.rs).               *)
(*                                                                         *)
(* The manager's own code (from_config, set_connect_function, create,      *)
(* recycle) is translated from lib.rs.  SyncWrapper (deadpool-sync) and    *)
(* the rusqlite connection are not part of lib.rs; the wrapper is          *)
(* modelled as the Worker Thread Bridge of the design description: one     *)
(* dedicated execution context per object, a queue of blocking closures,   *)
(* and a poison flag.                                                      *)
(***************************************************************************)
EXTENDS Integers, Sequences, FiniteSets, TLC

(* ---------------------------------------------------------------- bounds *)

\* asynchronous tasks calling into the manager
NumTasks == 2
\* pooled objects that can be created
NumObjs == 2
\* create() calls in one behaviour
MaxCreates == 2
\* recycle() calls in one behaviour
MaxRecycles == 3
\* caller interact() calls in one behaviour
MaxInteracts == 1
\* set_connect_function calls in one behaviour
MaxSets == 1
\* cancellations of an awaiting task in one behaviour
MaxCancels == 1
\* width in bits of the model's usize
UsizeBits == 3

Tasks == 1..NumTasks
Objs == 1..NumObjs
Modulus == 2 ^ UsizeBits
\* an absent value: below every usize and every object id
NoVal == 0 - 1
NoObj == NoVal

(* ----------------------------------------------------------------- state *)

VARIABLES
    config_path,    \* Manager.config.path
    recycle_count,  \* Manager.recycle_count
    connect,        \* Manager.connect: the installed connect function
    created,        \* the objects create() has returned
    poisoned,       \* per object: the wrapper's poison flag
    queue,          \* per object: closures submitted and not yet started
    running,        \* per object: closures now executing on the connection
    tickets,        \* per object: number of closures submitted so far
    execLog,        \* per object: tickets of the closures in execution order
    crashed,        \* per object: its context terminated abnormally (history)
    opening,        \* tasks whose connect closure occupies a blocking context
    pc,             \* per task: position in create / recycle / interact
    local,          \* per task: the locals of the call in progress
    last,           \* history: the recycle() call that returned last
    lastCreate,     \* history: the create() call that returned last
    attempts,       \* history: number of recycle() calls so far
    fetches,        \* history: number of fetch_add calls so far
    rejected,       \* history: number of recycle() calls refused as poisoned
    creates,        \* history: number of create() calls so far
    sets,           \* history: number of set_connect_function calls so far
    interacts,      \* history: number of caller interact() calls so far
    cancels         \* history: number of cancellations so far

vars == <<config_path, recycle_count, connect, created, poisoned, queue, running,
          tickets, execLog, crashed, opening, pc, local, last, lastCreate,
          attempts, fetches, rejected, creates, sets, interacts, cancels>>

mgrVars == <<config_path, recycle_count, connect>>
bridgeVars == <<poisoned, queue, running, tickets, execLog, crashed>>
histVars == <<last, lastCreate, attempts, fetches, rejected, creates, sets, interacts, cancels>>

(* ------------------------------------------------------- values and types *)

\* paths a Config can hold; the second cannot be opened
Paths == {"pool.db", "nodir/pool.db"}
\* connect functions: the default and one installed by set_connect_function
Strategies == {"default", "always_fail"}
\* how the raw connection answers one health-check query
Healths == {"healthy", "failing", "corrupt"}

\* Result<SqlConnection, SqlError> of a connect function
OpenOk == [ok |-> TRUE, err |-> ""]
OpenErr(e) == [ok |-> FALSE, err |-> e]
NoOpen == [ok |-> FALSE, err |-> "none"]

\* Result<Result<usize, SqlError>, InteractError> of interact()
InteractErr(e) == [outer |-> "Err", inner |-> "None", val |-> NoVal, err |-> e]
QueryOk(m) == [outer |-> "Ok", inner |-> "Ok", val |-> m, err |-> ""]
QueryErr(e) == [outer |-> "Ok", inner |-> "Err", val |-> NoVal, err |-> e]
NoRes == [outer |-> "None", inner |-> "None", val |-> NoVal, err |-> ""]

\* RecycleResult: Ok(()) or one RecycleError variant
RecycleOk == [variant |-> "Ok", payload |-> ""]
Message(s) == [variant |-> "Message", payload |-> s]
StaticMessage(s) == [variant |-> "StaticMessage", payload |-> s]
Backend(e) == [variant |-> "Backend", payload |-> e]
Pending == [variant |-> "Pending", payload |-> ""]
Cancelled == [variant |-> "Cancelled", payload |-> ""]

\* the record of one recycle() call
NoCall == [obj |-> NoObj, nth |-> 0, k |-> 0, poisonedAtStart |-> FALSE, crashedAtStart |-> FALSE,
           before |-> NoVal, fetched |-> NoVal, after |-> NoVal, sent |-> NoVal, queries |-> 0,
           ran |-> "no", res |-> NoRes, outcome |-> Pending]

\* the record of one create() call
NoCreate == [connect |-> "", path |-> "", invoked |-> 0, opened |-> NoOpen,
             result |-> NoOpen, obj |-> NoObj, done |-> FALSE]

NoLocal == [obj |-> NoObj, recycle_count |-> NoVal, ticket |-> 0, res |-> NoRes,
            path |-> "", connect |-> "", open |-> NoOpen, call |-> NoCall,
            create |-> NoCreate]

(* ---------------------------------------------------------- pure helpers *)

\* SqlConnection::open(path), the default connect function
DefaultConnect(path) == IF path = "pool.db" THEN OpenOk ELSE OpenErr("CannotOpen")

\* connect.0(path): the installed function applied to the path
ConnectFn(c, path) == IF c = "default" THEN DefaultConnect(path) ELSE OpenErr("Refused")

ConnectClosureRetry(c, path) ==
    [res |-> ConnectFn(c, path), invoked |-> IF ConnectFn(c, path).ok THEN 1 ELSE 2]

\* move || connect.0(path): one invocation, its result passed on
ConnectClosure(c, path) == [res |-> ConnectFn(c, path), invoked |-> 1]

\* create() returns what SyncWrapper::new(...).await yields
CreateResult(r) == r

InitialRecycleCountOne == 0 + 1

\* AtomicUsize::new(0)
InitialRecycleCount == 0

FetchAddReturnNew(c) == (c + 1) % Modulus

\* fetch_add(1, Relaxed) returns the previous value
FetchAddReturn(c) == c

FetchAddStoreSame(c) == c

\* fetch_add(1, Relaxed) stores the previous value plus one, wrapping
FetchAddStore(c) == (c + 1) % Modulus

\* [recycle_count]: the parameter bound to $1
QueryParamNext(n) == (n + 1) % Modulus

\* the parameter of "SELECT $1": [recycle_count]
QueryParam(n) == n

\* conn.query_row("SELECT $1", [p], |row| row.get(0)) on a connection in state h
QueryRow(h, p) ==
    CASE h = "healthy" -> {QueryOk(p)}
      [] h = "failing" -> {QueryErr("SqlError")}
      [] h = "corrupt" -> {QueryOk((p + 1) % Modulus), QueryOk((p + Modulus - 1) % Modulus)}

\* format!("{}", e)
Format(e) == "display(" \o e \o ")"

MapInteractErrBackend(e) == Backend(e)

\* .map_err(|e| RecycleError::Message(format!("{}", e)))
MapInteractErr(e) == Message(Format(e))

FromSqlErrorMessage(e) == Message(Format(e))

\* the second `?`: From<SqlError> for RecycleError
FromSqlError(e) == Backend(e)

CompareEchoAlwaysOk(n, c) == RecycleOk

\* if n == recycle_count { Ok(()) } else { Err(StaticMessage(..)) }
CompareEcho(n, c) == IF n = c THEN RecycleOk ELSE StaticMessage("Recycle count mismatch")

PoisonedResultAccepts == RecycleOk

\* Err(RecycleError::Message("Mutex is poisoned. ..."))
PoisonedResult == Message("Mutex is poisoned. Connection is considered unusable.")

\* the value of recycle() once interact() has returned res
RecycleOutcome(res, c) ==
    IF res.outer = "Err" THEN MapInteractErr(res.err)
    ELSE IF res.inner = "Err" THEN FromSqlError(res.err)
    ELSE CompareEcho(res.val, c)

\* conn.is_mutex_poisoned()
IsMutexPoisoned(o) == poisoned[o]

RecyclePoisonCheckSkipped(o) == FALSE

RecyclePoisonCheckInverted(o) == ~IsMutexPoisoned(o)

\* if conn.is_mutex_poisoned() { return Err(..) }
RecyclePoisonCheck(o) == IsMutexPoisoned(o)

WorkerPickLast(q) == q[Len(q)]

\* the bridge takes the closure submitted first
WorkerPick(q) == Head(q)

\* the bridge runs one closure at a time
WorkerFree(o) == running[o] = {}

\* q without its i-th element
RemoveAt(q, i) == [j \in 1..(Len(q) - 1) |-> IF j < i THEN q[j] ELSE q[j + 1]]

\* q without the closure c
Without(q, c) == RemoveAt(q, CHOOSE i \in 1..Len(q) : q[i] = c)

BusyNever(o) == {}

\* the tasks that hold object o: the pool hands an object to one holder (conn: &mut)
Busy(o) == {t \in Tasks : pc[t] # "idle" /\ local[t].obj = o}
InRecycle(t) == pc[t] \in {"recycle_fetch", "recycle_submit", "recycle_await", "recycle_ret"}
InCreate(t) == pc[t] \in {"create_open", "create_ret"}

(* ------------------------------------------------------------------ Init *)

\* Manager::from_config(config, runtime)
Init ==
    /\ config_path \in Paths
    /\ recycle_count = InitialRecycleCount
    /\ connect = "default"
    /\ created = {}
    /\ poisoned = [o \in Objs |-> FALSE]
    /\ queue = [o \in Objs |-> <<>>]
    /\ running = [o \in Objs |-> {}]
    /\ tickets = [o \in Objs |-> 0]
    /\ execLog = [o \in Objs |-> <<>>]
    /\ crashed = [o \in Objs |-> FALSE]
    /\ opening = {}
    /\ pc = [t \in Tasks |-> "idle"]
    /\ local = [t \in Tasks |-> NoLocal]
    /\ last = NoCall
    /\ lastCreate = NoCreate
    /\ attempts = 0
    /\ fetches = 0
    /\ rejected = 0
    /\ creates = 0
    /\ sets = 0
    /\ interacts = 0
    /\ cancels = 0

(* ------------------------------------------------- set_connect_function *)

SetConnectFunctionAnytime(s) ==
    /\ sets < MaxSets
    /\ s # connect
    /\ connect' = s
    /\ sets' = sets + 1
    /\ UNCHANGED <<config_path, recycle_count, created, bridgeVars, opening, pc,
                   local, last, lastCreate, attempts, fetches, rejected, creates,
                   interacts, cancels>>

\* set_connect_function(&mut self, func): no create or recycle borrows the manager
SetConnectFunction(s) ==
    /\ \A t \in Tasks : ~InCreate(t) /\ ~InRecycle(t)
    /\ sets < MaxSets
    /\ s # connect
    /\ connect' = s
    /\ sets' = sets + 1
    /\ UNCHANGED <<config_path, recycle_count, created, bridgeVars, opening, pc,
                   local, last, lastCreate, attempts, fetches, rejected, creates,
                   interacts, cancels>>

(* ---------------------------------------------------------------- create *)

CreateFrameCounts ==
    /\ recycle_count' = (recycle_count + 1) % Modulus
    /\ UNCHANGED <<config_path, connect>>

\* create(&self) reads config.path and connect and writes no field of the manager
CreateFrame == UNCHANGED <<config_path, recycle_count, connect>>

\* create(): clone path and connect, hand the closure to SyncWrapper::new, await
CreateStart(t) ==
    /\ pc[t] = "idle"
    /\ CreateFrame
    /\ creates < MaxCreates
    /\ Cardinality(created) + Cardinality({u \in Tasks : InCreate(u)}) < NumObjs
    /\ creates' = creates + 1
    /\ local' = [local EXCEPT ![t] =
            [NoLocal EXCEPT !.path = config_path,
                            !.connect = connect,
                            !.create = [NoCreate EXCEPT !.connect = connect,
                                                        !.path = config_path]]]
    /\ opening' = opening \cup {t}
    /\ pc' = [pc EXCEPT ![t] = "create_open"]
    /\ UNCHANGED <<created, bridgeVars, last, lastCreate, attempts, fetches,
                   rejected, sets, interacts, cancels>>

\* the closure runs on the blocking context and the context is given back
CreateOpen(t) ==
    /\ pc[t] = "create_open"
    /\ CreateFrame
    /\ LET r == ConnectClosure(local[t].connect, local[t].path) IN
        local' = [local EXCEPT ![t].open = r.res,
                               ![t].create.invoked = @ + r.invoked,
                               ![t].create.opened = ConnectFn(local[t].connect,
                                                              local[t].path)]
    /\ opening' = opening \ {t}
    /\ pc' = [pc EXCEPT ![t] = "create_ret"]
    /\ UNCHANGED <<created, bridgeVars, histVars>>

\* the await completes: the wrapped object, or the error of the connect function
CreateReturn(t) ==
    /\ pc[t] = "create_ret"
    /\ CreateFrame
    /\ LET r == CreateResult(local[t].open)
           o == CHOOSE x \in Objs \ created : \A y \in Objs \ created : x <= y IN
        IF r.ok
        THEN /\ created' = created \cup {o}
             /\ poisoned' = [poisoned EXCEPT ![o] = FALSE]
             /\ lastCreate' = [local[t].create EXCEPT !.result = r, !.obj = o,
                                                      !.done = TRUE]
        ELSE /\ created' = created
             /\ poisoned' = poisoned
             /\ lastCreate' = [local[t].create EXCEPT !.result = r, !.done = TRUE]
    /\ pc' = [pc EXCEPT ![t] = "idle"]
    /\ local' = [local EXCEPT ![t] = NoLocal]
    /\ UNCHANGED <<queue, running, tickets, execLog, crashed, opening, last,
                   attempts, fetches, rejected, creates, sets, interacts, cancels>>

(* --------------------------------------------------------------- recycle *)

\* recycle(&self, conn: &mut ..): entry and the poison check, while fewer than cap
\* calls have been made
RecycleStartUpTo(t, o, cap) ==
    /\ pc[t] = "idle"
    /\ o \in created
    /\ Busy(o) = {}
    /\ attempts < cap
    /\ attempts' = attempts + 1
    /\ LET c == [NoCall EXCEPT !.obj = o,
                               !.nth = attempts + 1,
                               !.poisonedAtStart = IsMutexPoisoned(o),
                               !.crashedAtStart = crashed[o]] IN
        IF RecyclePoisonCheck(o)
        THEN /\ last' = [c EXCEPT !.outcome = PoisonedResult]
             /\ rejected' = rejected + 1
             /\ UNCHANGED <<pc, local>>
        ELSE /\ last' = last
             /\ rejected' = rejected
             /\ pc' = [pc EXCEPT ![t] = "recycle_fetch"]
             /\ local' = [local EXCEPT ![t] = [NoLocal EXCEPT !.obj = o, !.call = c]]
    /\ UNCHANGED <<mgrVars, created, bridgeVars, opening, lastCreate, fetches, creates,
                   sets, interacts, cancels>>

\* recycle() within the bound of the main specification
RecycleStart(t, o) == RecycleStartUpTo(t, o, MaxRecycles)

\* let recycle_count = self.recycle_count.fetch_add(1, Ordering::Relaxed)
RecycleFetchAdd(t) ==
    /\ pc[t] = "recycle_fetch"
    /\ recycle_count' = FetchAddStore(recycle_count)
    /\ fetches' = fetches + 1
    /\ local' = [local EXCEPT ![t].recycle_count = FetchAddReturn(recycle_count),
                              ![t].call.k = fetches + 1,
                              ![t].call.before = recycle_count,
                              ![t].call.fetched = FetchAddReturn(recycle_count),
                              ![t].call.after = FetchAddStore(recycle_count)]
    /\ pc' = [pc EXCEPT ![t] = "recycle_submit"]
    /\ UNCHANGED <<config_path, connect, created, bridgeVars, opening, last, lastCreate,
                   attempts, rejected, creates, sets, interacts, cancels>>

\* interact(f): f joins the queue of the object's execution context
Submit(o, kind, t, param) ==
    /\ tickets' = [tickets EXCEPT ![o] = @ + 1]
    /\ queue' = [queue EXCEPT ![o] = Append(@, [ticket |-> tickets[o] + 1, kind |-> kind,
                                                task |-> t, param |-> param])]

\* conn.interact(move |conn| conn.query_row("SELECT $1", [recycle_count], ..))
RecycleSubmit(t) ==
    /\ pc[t] = "recycle_submit"
    /\ Submit(local[t].obj, "recycle", t, QueryParam(local[t].recycle_count))
    /\ local' = [local EXCEPT ![t].ticket = tickets[local[t].obj] + 1,
                              ![t].call.sent = QueryParam(local[t].recycle_count),
                              ![t].call.queries = @ + 1]
    /\ pc' = [pc EXCEPT ![t] = "recycle_await"]
    /\ UNCHANGED <<mgrVars, created, poisoned, running, execLog, crashed, opening,
                   histVars>>

RecycleReturnRetry(t) ==
    /\ pc[t] = "recycle_ret"
    /\ IF RecycleOutcome(local[t].res, local[t].recycle_count) = RecycleOk
       THEN /\ last' = [local[t].call EXCEPT !.res = local[t].res, !.outcome = RecycleOk]
            /\ pc' = [pc EXCEPT ![t] = "idle"]
            /\ local' = [local EXCEPT ![t] = NoLocal]
       ELSE /\ last' = last
            /\ pc' = [pc EXCEPT ![t] = "recycle_fetch"]
            /\ local' = local
    /\ UNCHANGED <<mgrVars, created, bridgeVars, opening, lastCreate, attempts, fetches,
                   rejected, creates, sets, interacts, cancels>>

\* .await .map_err(..)??  and the comparison of the echo
RecycleReturn(t) ==
    /\ pc[t] = "recycle_ret"
    /\ last' = [local[t].call EXCEPT
                    !.res = local[t].res,
                    !.outcome = RecycleOutcome(local[t].res, local[t].recycle_count)]
    /\ pc' = [pc EXCEPT ![t] = "idle"]
    /\ local' = [local EXCEPT ![t] = NoLocal]
    /\ UNCHANGED <<mgrVars, created, bridgeVars, opening, lastCreate, attempts, fetches,
                   rejected, creates, sets, interacts, cancels>>

(* ------------------------------------------------------ caller interact *)

\* a checked-out caller submits a closure of its own through interact()
UserInteract(t, o) ==
    /\ pc[t] = "idle"
    /\ o \in created
    /\ \A u \in Busy(o) : ~InRecycle(u)
    /\ interacts < MaxInteracts
    /\ interacts' = interacts + 1
    /\ Submit(o, "user", t, NoVal)
    /\ local' = [local EXCEPT ![t] = [NoLocal EXCEPT !.obj = o,
                                                     !.ticket = tickets[o] + 1]]
    /\ pc' = [pc EXCEPT ![t] = "user_await"]
    /\ UNCHANGED <<mgrVars, created, poisoned, running, execLog, crashed, opening,
                   last, lastCreate, attempts, fetches, rejected, creates, sets,
                   cancels>>

\* the caller's interact() returns
UserReturn(t) ==
    /\ pc[t] = "user_ret"
    /\ pc' = [pc EXCEPT ![t] = "idle"]
    /\ local' = [local EXCEPT ![t] = NoLocal]
    /\ UNCHANGED <<mgrVars, created, bridgeVars, opening, histVars>>

CancelAborts(t) ==
    /\ pc[t] \in {"recycle_await", "recycle_ret", "user_await", "user_ret"}
    /\ cancels < MaxCancels
    /\ cancels' = cancels + 1
    /\ pc' = [pc EXCEPT ![t] = "idle"]
    /\ local' = [local EXCEPT ![t] = NoLocal]
    /\ queue' = [queue EXCEPT ![local[t].obj] =
                    SelectSeq(@, LAMBDA c : c.ticket # local[t].ticket)]
    /\ running' = [running EXCEPT ![local[t].obj] =
                    {c \in @ : c.ticket # local[t].ticket}]
    /\ UNCHANGED <<mgrVars, created, poisoned, tickets, execLog, crashed, opening, last,
                   lastCreate, attempts, fetches, rejected, creates, sets, interacts>>

CancelRollsBack(t) ==
    /\ pc[t] \in {"recycle_await", "recycle_ret", "user_await", "user_ret"}
    /\ cancels < MaxCancels
    /\ cancels' = cancels + 1
    /\ recycle_count' = IF InRecycle(t) THEN (recycle_count + Modulus - 1) % Modulus
                                        ELSE recycle_count
    /\ pc' = [pc EXCEPT ![t] = "idle"]
    /\ local' = [local EXCEPT ![t] = NoLocal]
    /\ UNCHANGED <<config_path, connect, created, bridgeVars, opening, last, lastCreate,
                   attempts, fetches, rejected, creates, sets, interacts>>

\* the task awaiting interact() is dropped; its closure stays where it is
Cancel(t) ==
    /\ pc[t] \in {"recycle_await", "recycle_ret", "user_await", "user_ret"}
    /\ cancels < MaxCancels
    /\ cancels' = cancels + 1
    /\ pc' = [pc EXCEPT ![t] = "idle"]
    /\ local' = [local EXCEPT ![t] = NoLocal]
    /\ UNCHANGED <<mgrVars, created, bridgeVars, opening, last, lastCreate, attempts,
                   fetches, rejected, creates, sets, interacts>>

(* ---------------------------------------- the dedicated execution context *)

UserOk == [outer |-> "Ok", inner |-> "None", val |-> NoVal, err |-> ""]

\* the one-shot result of closure c reaches the task still awaiting it, if any
Deliver(o, c, res, how) ==
    LET waiter == {t \in Tasks : /\ pc[t] \in {"recycle_await", "user_await"}
                                 /\ local[t].obj = o
                                 /\ local[t].ticket = c.ticket} IN
    /\ pc' = [t \in Tasks |-> IF t \in waiter
                              THEN (IF pc[t] = "recycle_await" THEN "recycle_ret"
                                                               ELSE "user_ret")
                              ELSE pc[t]]
    /\ local' = [t \in Tasks |-> IF t \in waiter
                                 THEN [local[t] EXCEPT !.res = res, !.call.ran = how]
                                 ELSE local[t]]

\* the context takes the next closure; a terminated context runs nothing
WorkerStart(o) ==
    /\ o \in created
    /\ queue[o] # <<>>
    /\ WorkerFree(o)
    /\ LET c == WorkerPick(queue[o]) IN
        /\ queue' = [queue EXCEPT ![o] = Without(@, c)]
        /\ IF poisoned[o]
           THEN /\ Deliver(o, c, InteractErr("Terminated"), "refused")
                /\ UNCHANGED <<running, execLog>>
           ELSE /\ running' = [running EXCEPT ![o] = @ \cup {c}]
                /\ execLog' = [execLog EXCEPT ![o] = Append(@, c.ticket)]
                /\ UNCHANGED <<pc, local>>
    /\ UNCHANGED <<mgrVars, created, poisoned, tickets, crashed, opening, histVars>>

\* the running closure completes on the connection
WorkerFinish(o) ==
    /\ \E c \in running[o] :
        /\ running' = [running EXCEPT ![o] = @ \ {c}]
        /\ IF c.kind = "recycle"
           THEN \E h \in Healths : \E r \in QueryRow(h, c.param) : Deliver(o, c, r, h)
           ELSE Deliver(o, c, UserOk, "user")
    /\ UNCHANGED <<mgrVars, created, poisoned, queue, tickets, execLog, crashed,
                   opening, histVars>>

\* the context terminates abnormally while a closure is in flight
WorkerCrash(o) ==
    /\ \E c \in running[o] :
        /\ running' = [running EXCEPT ![o] = @ \ {c}]
        /\ Deliver(o, c, InteractErr("Panic"), "crash")
    /\ poisoned' = [poisoned EXCEPT ![o] = TRUE]
    /\ crashed' = [crashed EXCEPT ![o] = TRUE]
    /\ UNCHANGED <<mgrVars, created, queue, tickets, execLog, opening, histVars>>

(* ------------------------------------------------------------------ Next *)

Next ==
    \/ \E s \in Strategies : SetConnectFunction(s)
    \/ \E t \in Tasks : CreateStart(t)
    \/ \E t \in Tasks : CreateOpen(t)
    \/ \E t \in Tasks : CreateReturn(t)
    \/ \E t \in Tasks, o \in Objs : RecycleStart(t, o)
    \/ \E t \in Tasks : RecycleFetchAdd(t)
    \/ \E t \in Tasks : RecycleSubmit(t)
    \/ \E t \in Tasks : RecycleReturn(t)
    \/ \E t \in Tasks, o \in Objs : UserInteract(t, o)
    \/ \E t \in Tasks : UserReturn(t)
    \/ \E t \in Tasks : Cancel(t)
    \/ \E o \in Objs : WorkerStart(o)
    \/ \E o \in Objs : WorkerFinish(o)
    \/ \E o \in Objs : WorkerCrash(o)

Spec == Init /\ [][Next]_vars

(* ------------------------------------- the counter beyond its wrap-around *)

\* recycle() calls in one behaviour of SpecWrap: enough to pass the modulus
MaxWrapRecycles == Modulus + 1

\* create and recycle only, with no crash, no caller closure and no cancellation
NextWrap ==
    \/ \E t \in Tasks : CreateStart(t)
    \/ \E t \in Tasks : CreateOpen(t)
    \/ \E t \in Tasks : CreateReturn(t)
    \/ \E t \in Tasks, o \in Objs : RecycleStartUpTo(t, o, MaxWrapRecycles)
    \/ \E t \in Tasks : RecycleFetchAdd(t)
    \/ \E t \in Tasks : RecycleSubmit(t)
    \/ \E t \in Tasks : RecycleReturn(t)
    \/ \E o \in Objs : WorkerStart(o)
    \/ \E o \in Objs : WorkerFinish(o)

SpecWrap == Init /\ [][NextWrap]_vars

(* ---------------------------------------------------------------- claims *)

Returned == last.outcome # Pending
Quiescent == \A t \in Tasks : ~InRecycle(t)
PastFetch(t) == pc[t] \in {"recycle_submit", "recycle_await", "recycle_ret"}
ErrVariants == {"Message", "StaticMessage", "Backend"}
BridgeErrors == {"Panic", "Terminated"}
SqlErrors == {"SqlError"}
Mismatch == StaticMessage("Recycle count mismatch")

\* C1: an object whose context has terminated abnormally stays poisoned, and every
\* recycle call made on an object whose is_mutex_poisoned() is true returns an error
C1_PoisonedNeverAccepted ==
    /\ \A o \in Objs : crashed[o] => IsMutexPoisoned(o)
    /\ (Returned /\ last.poisonedAtStart) => last.outcome.variant \in ErrVariants

\* a later recycle call (not the first of the manager) was refused on a poisoned object
C1_Witness ==
    /\ Returned /\ last.poisonedAtStart /\ last.nth >= 2
    /\ last.outcome.variant = "Message"

\* C2: after an abnormal termination during interact(), is_mutex_poisoned() is true and
\* every recycle call on the object fails with the poisoned error, submitting no query
C2_CrashThenRefusedWithoutQuery ==
    /\ \A o \in created : crashed[o] => IsMutexPoisoned(o)
    /\ (Returned /\ last.crashedAtStart) =>
            /\ last.outcome = PoisonedResult
            /\ last.queries = 0
            /\ last.sent = NoVal
    /\ \A t \in Tasks : InRecycle(t) => ~local[t].call.crashedAtStart

\* a recycle call on a crashed object returned the poisoned error with no query sent
C2_Witness ==
    /\ Returned /\ last.crashedAtStart /\ crashed[last.obj]
    /\ last.outcome = PoisonedResult /\ last.queries = 0

\* C3: a recycle call on a non-poisoned connection that answers the query healthily
\* succeeds, the counter grows by exactly one at its fetch, and two calls in flight at
\* the same time never hold the same fetched value
C3_HealthySucceedsUniqueFetch ==
    /\ (Returned /\ ~last.poisonedAtStart /\ last.ran = "healthy") =>
            /\ last.outcome = RecycleOk
            /\ last.after = last.fetched + 1
    /\ \A t \in Tasks : PastFetch(t) => local[t].call.after = local[t].call.fetched + 1
    /\ \A t1, t2 \in Tasks :
            (t1 # t2 /\ PastFetch(t1) /\ PastFetch(t2)) =>
                local[t1].recycle_count # local[t2].recycle_count

\* two recycle calls are in flight past their fetch after an earlier one succeeded
C3_Witness ==
    /\ last.outcome = RecycleOk /\ last.ran = "healthy"
    /\ \E t1, t2 \in Tasks : t1 # t2 /\ PastFetch(t1) /\ PastFetch(t2)

\* C4 as stated: with no recycle call in flight the counter equals the number of
\* recycle calls made, whatever their outcomes
C4_Original == Quiescent => recycle_count = attempts

\* C4 amended: the counter is zero at construction and counts exactly the recycle calls
\* that passed the poison check; a call refused as poisoned leaves it unchanged
C4_CounterCountsPassedCalls ==
    /\ recycle_count =
            attempts - rejected - Cardinality({t \in Tasks : pc[t] = "recycle_fetch"})
    /\ recycle_count = fetches
    /\ Returned => (last.outcome = PoisonedResult /\ last.poisonedAtStart
                        <=> last.fetched = NoVal)

\* calls of both kinds have returned: one refused as poisoned, one that fetched
C4_Witness == Quiescent /\ rejected >= 1 /\ fetches >= 1 /\ attempts = rejected + fetches

\* C5 as stated: the i-th recycle on a healthy object makes the counter i, sends i,
\* the query echoes i, and the call succeeds
C5_Original ==
    (Returned /\ ~last.poisonedAtStart /\ last.ran = "healthy") =>
        /\ last.after = last.k
        /\ last.sent = last.k
        /\ last.res.val = last.k
        /\ last.outcome = RecycleOk

\* C5 amended: the i-th recycle on a healthy object makes the counter i, sends i - 1
\* (the value before its increment), the query echoes i - 1, and the call succeeds
C5_SendsPreviousValue ==
    (Returned /\ ~last.poisonedAtStart /\ last.ran = "healthy") =>
        /\ last.after = last.k
        /\ last.sent = last.k - 1
        /\ last.res.val = last.k - 1
        /\ last.outcome = RecycleOk

\* the second recycle of object 1 on a manager has succeeded, sending and echoing 1
C5_Witness ==
    /\ last.obj = 1 /\ last.k = 2 /\ last.nth = 2 /\ rejected = 0
    /\ last.ran = "healthy" /\ last.outcome = RecycleOk /\ last.sent = 1

\* C6: when the query of a recycle call on a non-poisoned object completes with a value
\* other than the one this call fetched and sent, the call fails with the fixed
\* mismatch error; the call succeeds only if the echo equals the fetched value
C6_MismatchRejected ==
    /\ (Returned /\ ~last.poisonedAtStart /\ last.res.inner = "Ok"
            /\ last.res.val # last.sent) => last.outcome = Mismatch
    /\ (Returned /\ last.outcome = RecycleOk) =>
            /\ last.res.inner = "Ok"
            /\ last.res.val = last.fetched
            /\ last.sent = last.fetched
            /\ last.queries = 1

\* a query completed with a wrong echo and the call failed with the mismatch error
C6_Witness ==
    /\ Returned /\ last.ran = "corrupt" /\ last.res.inner = "Ok"
    /\ last.res.val # last.sent /\ last.outcome = Mismatch

\* C7 as stated: whether interact() fails through the bridge or through the query,
\* recycle fails with a Message error
C7_Original ==
    (Returned /\ (last.res.outer = "Err" \/ last.res.inner = "Err")) =>
        last.outcome.variant = "Message"

\* C7 amended: a bridge failure makes recycle fail with Message(display of the bridge
\* error); a query failure makes it fail with Backend(the query's own error)
C7_BridgeMessageQueryBackend ==
    /\ (Returned /\ last.res.outer = "Err") => last.outcome = Message(Format(last.res.err))
    /\ (Returned /\ last.res.inner = "Err") => last.outcome = Backend(last.res.err)

\* a failed query has been reported as a Backend error
C7_Witness ==
    /\ Returned /\ last.ran = "failing" /\ last.res.inner = "Err"
    /\ last.outcome.variant = "Backend"

\* C8: the outcome reported for a bridge failure has a variant no query failure is
\* reported with, and the other way round, and neither is reported as success
C8_BridgeDistinctFromQuery ==
    /\ (Returned /\ last.res.outer = "Err") =>
            last.outcome.variant \notin ({FromSqlError(e).variant : e \in SqlErrors} \cup {"Ok"})
    /\ (Returned /\ last.res.inner = "Err") =>
            last.outcome.variant \notin ({MapInteractErr(e).variant : e \in BridgeErrors} \cup {"Ok"})

\* a recycle call whose closure could not be run by the context has returned an error
C8_Witness ==
    /\ Returned /\ last.res.outer = "Err" /\ last.res.err \in BridgeErrors
    /\ last.ran \in {"crash", "refused"} /\ last.outcome.variant \in ErrVariants

\* C9: a create() whose connect function fails returns that failure unchanged, yields
\* no object, holds no blocking context afterwards, and has invoked the function once
C9_FailedCreate ==
    /\ (lastCreate.done /\ ~lastCreate.opened.ok) =>
            /\ lastCreate.result = lastCreate.opened
            /\ lastCreate.obj = NoObj
            /\ lastCreate.invoked = 1
    /\ lastCreate.done => lastCreate.invoked = 1
    /\ \A t \in Tasks : pc[t] = "create_ret" => local[t].create.invoked = 1
    /\ \A t \in opening : pc[t] = "create_open"

\* a create() with the connect function replaced by a failing one has returned its error
C9_Witness ==
    /\ lastCreate.done /\ lastCreate.connect = "always_fail"
    /\ ~lastCreate.result.ok /\ lastCreate.result.err = "Refused"
    /\ opening = {}

\* C10: on one object's context at most one closure runs at a time, and closures start
\* in the order of their submission
C10_OneAtATimeInOrder ==
    \A o \in Objs :
        /\ Cardinality(running[o]) <= 1
        /\ \A i, j \in 1..Len(execLog[o]) : i < j => execLog[o][i] < execLog[o][j]
        /\ \A c \in running[o] : \A i \in 1..Len(queue[o]) : c.ticket < queue[o][i].ticket

\* a second closure has started after waiting in the queue behind a running one
C10_Witness ==
    \E o \in Objs : Len(execLog[o]) >= 2 /\ running[o] # {} /\ cancels >= 1

\* a closure whose submitting task no longer awaits it
Orphan(o, c) ==
    ~(/\ pc[c.task] \in {"recycle_await", "user_await"}
      /\ local[c.task].obj = o
      /\ local[c.task].ticket = c.ticket)

\* the step of dropping task t while it awaits interact()
CancelStep(t) ==
    /\ pc[t] \in {"recycle_await", "recycle_ret", "user_await", "user_ret"}
    /\ pc'[t] = "idle"
    /\ cancels' = cancels + 1

\* C11: cancelling the task that awaits interact() removes its closure neither from the
\* queue nor from execution and does not poison the object; no submitted closure of a
\* live context is ever lost, and closures never overlap on one connection
C11_CancelKeepsClosure ==
    /\ [](\A o \in Objs :
            /\ Cardinality(running[o]) <= 1
            /\ ~crashed[o] => tickets[o] = Len(queue[o]) + Len(execLog[o])
            /\ IsMutexPoisoned(o) => crashed[o])
    /\ [][\A t \in Tasks : CancelStep(t) =>
            /\ queue' = queue
            /\ running' = running
            /\ poisoned' = poisoned]_vars

\* the health-check closure of a cancelled recycle is executing on the connection while
\* a later closure waits behind it
C11_Witness ==
    \E o \in Objs : \E c \in running[o] :
        /\ c.kind = "recycle" /\ Orphan(o, c) /\ cancels >= 1
        /\ ~IsMutexPoisoned(o) /\ queue[o] # <<>>

\* tasks t1 and t2 are in flight on different objects, their fetches one after the other
ConsecutivePair(t1, t2) ==
    /\ t1 # t2 /\ PastFetch(t1) /\ PastFetch(t2)
    /\ local[t1].obj # local[t2].obj
    /\ local[t2].call.k = local[t1].call.k + 1

\* C12 as stated: two concurrent recycle calls on a manager whose counter is k observe
\* the values k+1 and k+2
C12_Original ==
    \A t1, t2 \in Tasks : ConsecutivePair(t1, t2) =>
        LET k == local[t1].call.before IN
        {local[t1].recycle_count, local[t2].recycle_count} = {k + 1, k + 2}

\* C12 amended: two concurrent recycle calls on a manager whose counter is k observe
\* the values k and k+1, one each, in either order of the tasks; a call whose own
\* value is echoed succeeds
C12_ConcurrentPairObservesKAndNext ==
    /\ \A t1, t2 \in Tasks : ConsecutivePair(t1, t2) =>
            LET k == local[t1].call.before IN
            /\ local[t1].recycle_count = k
            /\ local[t2].recycle_count = k + 1
            /\ recycle_count >= k + 2
    /\ (Returned /\ last.res.inner = "Ok") =>
            (last.outcome = RecycleOk <=> last.res.val = last.fetched)
    /\ (Returned /\ last.ran = "healthy") => last.res.val = last.fetched

\* both calls of a concurrent pair have had their own value echoed by a healthy query
C12_Witness ==
    \E t1, t2 \in Tasks :
        /\ ConsecutivePair(t1, t2)
        /\ pc[t1] = "recycle_ret" /\ pc[t2] = "recycle_ret"
        /\ local[t1].call.ran = "healthy" /\ local[t2].call.ran = "healthy"
        /\ local[t1].res.val = local[t1].recycle_count
        /\ local[t2].res.val = local[t2].recycle_count
        /\ t2 < t1

\* C13: an object create() has returned, on which no closure has been submitted yet, is
\* not poisoned, and no recycle call is refused as poisoned on such an object
C13_FreshObjectNotPoisoned ==
    /\ \A o \in created : tickets[o] = 0 => ~IsMutexPoisoned(o)
    /\ (lastCreate.done /\ lastCreate.result.ok) => lastCreate.obj \in created
    /\ (Returned /\ last.outcome = PoisonedResult) =>
            /\ tickets[last.obj] >= 1
            /\ last.poisonedAtStart
    /\ \A t \in Tasks : pc[t] \in {"recycle_fetch", "recycle_submit"} =>
            ~local[t].call.poisonedAtStart

\* the first recycle of a newly created object went past the poison check and succeeded
C13_Witness ==
    /\ lastCreate.done /\ lastCreate.result.ok
    /\ Returned /\ last.obj = lastCreate.obj /\ ~last.poisonedAtStart
    /\ tickets[last.obj] = 1 /\ last.queries = 1 /\ last.outcome = RecycleOk

\* C14 as stated: of two recycle attempts the later one always fetches the greater
\* value, so no value ever repeats
C14_Original ==
    /\ \A t1, t2 \in Tasks :
            (PastFetch(t1) /\ PastFetch(t2) /\ local[t1].call.k < local[t2].call.k) =>
                local[t1].recycle_count < local[t2].recycle_count
    /\ \A t \in Tasks :
            (PastFetch(t) /\ last.fetched # NoVal /\ last.k < local[t].call.k) =>
                last.fetched < local[t].recycle_count

\* C14 amended: the i-th fetch of a manager yields (i - 1) modulo 2^w, so two attempts
\* fewer than 2^w fetches apart never fetch the same value, and the values increase
\* strictly between two wrap-arounds
C14_FetchedIsIndexModulo ==
    /\ \A t \in Tasks : PastFetch(t) =>
            local[t].recycle_count = (local[t].call.k - 1) % Modulus
    /\ (Returned /\ last.fetched # NoVal) => last.fetched = (last.k - 1) % Modulus
    /\ \A t1, t2 \in Tasks :
            (PastFetch(t1) /\ PastFetch(t2) /\ local[t1].call.k < local[t2].call.k
                /\ local[t2].call.k - local[t1].call.k < Modulus) =>
                    local[t1].recycle_count # local[t2].recycle_count
    /\ \A t1, t2 \in Tasks :
            (PastFetch(t1) /\ PastFetch(t2) /\ local[t1].call.k < local[t2].call.k
                /\ (local[t1].call.k - 1) \div Modulus = (local[t2].call.k - 1) \div Modulus) =>
                    local[t1].recycle_count < local[t2].recycle_count

\* after the wrap-around a later attempt holds the value an earlier attempt still holds
C14_Witness ==
    \E t1, t2 \in Tasks :
        /\ PastFetch(t1) /\ PastFetch(t2)
        /\ local[t1].call.k = 1 /\ local[t2].call.k = Modulus + 1
        /\ local[t1].recycle_count = local[t2].recycle_count

\* C15: a create() in flight holds the path and the connect function that are current,
\* no replacement happens while it is in flight, its closure runs on the blocking
\* context, and a finished create() invoked exactly that function on that path once
C15_CreateUsesCurrentStrategy ==
    /\ \A t \in Tasks : InCreate(t) =>
            /\ local[t].connect = connect
            /\ local[t].path = config_path
            /\ local[t].create.connect = connect
            /\ local[t].create.path = config_path
    /\ \A t \in Tasks : pc[t] = "create_open" <=> t \in opening
    /\ \A t \in Tasks : pc[t] = "create_ret" =>
            /\ local[t].create.invoked = 1
            /\ local[t].create.opened = ConnectFn(connect, config_path)
            /\ local[t].open = ConnectFn(connect, config_path)
    /\ lastCreate.done =>
            /\ lastCreate.invoked = 1
            /\ lastCreate.opened = ConnectFn(lastCreate.connect, lastCreate.path)
            /\ lastCreate.result = lastCreate.opened
            /\ lastCreate.path = config_path
            /\ (sets = 0 => lastCreate.connect = "default")

\* a create() that started after a replacement has invoked the installed function
C15_Witness ==
    /\ sets >= 1
    /\ connect # "default"
    /\ \E t \in Tasks : /\ pc[t] = "create_ret"
                        /\ local[t].create.connect = connect
                        /\ local[t].create.invoked = 1
                        /\ local[t].open = ConnectFn(connect, config_path)
    /\ lastCreate.done /\ lastCreate.connect = "default"

RECURSIVE TicketsUpTo(_)
TicketsUpTo(n) == IF n = 0 THEN 0 ELSE tickets[n] + TicketsUpTo(n - 1)

\* C17: every recycle call is refused as poisoned, or is about to fetch, or has fetched
\* exactly once; a call submits at most one query, none before its fetch and none when
\* refused; and what a call returns is the outcome of its first and only round trip
C17_NoRetry ==
    /\ attempts = rejected + fetches + Cardinality({t \in Tasks : pc[t] = "recycle_fetch"})
    /\ TicketsUpTo(NumObjs) =
            fetches - Cardinality({t \in Tasks : pc[t] = "recycle_submit"}) + interacts
    /\ \A t \in Tasks :
        /\ pc[t] = "recycle_fetch" =>
                (local[t].call.fetched = NoVal /\ local[t].call.queries = 0)
        /\ pc[t] = "recycle_submit" => local[t].call.queries = 0
        /\ pc[t] \in {"recycle_await", "recycle_ret"} => local[t].call.queries = 1
    /\ Returned =>
        /\ last.queries = (IF last.outcome = PoisonedResult /\ last.poisonedAtStart
                           THEN 0 ELSE 1)
        /\ last.fetched = NoVal => last.outcome = PoisonedResult
        /\ last.fetched # NoVal => last.outcome = RecycleOutcome(last.res, last.fetched)

\* the only recycle call made has returned a mismatch after one fetch and one query, and
\* nothing followed it
C17_Witness ==
    /\ Returned /\ last.outcome = Mismatch /\ last.queries = 1
    /\ attempts = 1 /\ fetches = 1 /\ recycle_count = 1
    /\ \A t \in Tasks : pc[t] = "idle"
    /\ tickets[last.obj] = 1 /\ queue[last.obj] = <<>> /\ running[last.obj] = {}

\* C18: the counter is the number (modulo 2^w) of recycle calls that passed the poison
\* check and executed their fetch; only the fetch of a call changes it, by one, so a
\* failed query, a failed bridge, a mismatch or a cancellation leaves the increment in
\* place and a call refused as poisoned never reaches the fetch
C18_CounterKeepsIncrement ==
    /\ [](/\ recycle_count =
                (attempts - rejected
                    - Cardinality({t \in Tasks : pc[t] = "recycle_fetch"})) % Modulus
          /\ \A t \in Tasks : InRecycle(t) => ~local[t].call.poisonedAtStart)
    /\ [][/\ rejected' # rejected => recycle_count' = recycle_count
          /\ cancels' # cancels => recycle_count' = recycle_count
          /\ last' # last => recycle_count' = recycle_count
          /\ fetches' = fetches => recycle_count' = recycle_count
          /\ fetches' # fetches => recycle_count' = (recycle_count + 1) % Modulus]_vars

\* a call was cancelled after its fetch, a call was refused as poisoned and the last
\* call failed in its query: the counter is two after three calls
C18_Witness ==
    /\ cancels >= 1 /\ rejected = 1 /\ attempts = 3 /\ Quiescent
    /\ Returned /\ last.outcome = Backend("SqlError")
    /\ recycle_count = 2

\* C19: the value a call holds, sends and compares the echo against is the counter value
\* read by its fetch, the counter is that value plus one (modulo 2^w) after the fetch,
\* and the first fetch of a manager reads 0
C19_SendsValueBeforeIncrement ==
    /\ \A t \in Tasks : PastFetch(t) =>
        /\ local[t].recycle_count = local[t].call.before
        /\ local[t].call.after = (local[t].call.before + 1) % Modulus
        /\ local[t].call.k = 1 => local[t].call.before = 0
        /\ pc[t] # "recycle_submit" => local[t].call.sent = local[t].call.before
    /\ (Returned /\ last.fetched # NoVal) =>
        /\ last.sent = last.before
        /\ last.after = (last.before + 1) % Modulus
        /\ last.k = 1 => last.sent = 0
        /\ last.res.inner = "Ok" =>
                (last.outcome = RecycleOk <=> last.res.val = last.before)

\* the first call sent 0 and succeeded, and the second call has sent 1 with the counter
\* at 2
C19_Witness ==
    /\ Returned /\ last.k = 1 /\ last.before = 0 /\ last.sent = 0
    /\ last.outcome = RecycleOk
    /\ recycle_count = 2
    /\ \E t \in Tasks : /\ pc[t] = "recycle_await"
                        /\ local[t].call.before = 1 /\ local[t].call.sent = 1

\* a step of create() by task t
CreateStep(t) == (InCreate(t) \/ InCreate(t)') /\ pc'[t] # pc[t]

\* a step of recycle(): a call refused at once, or a call changing its position
RecycleStep ==
    \/ attempts' # attempts
    \/ \E t \in Tasks : (InRecycle(t) \/ InRecycle(t)') /\ pc'[t] # pc[t]

\* C20: no step of create() changes the counter, the path or the connect function, and
\* no step of recycle() changes the path or the connect function
C20_ManagerStateFrame ==
    [][/\ (\E t \in Tasks : CreateStep(t)) =>
                (/\ recycle_count' = recycle_count
                 /\ config_path' = config_path
                 /\ connect' = connect)
       /\ RecycleStep => (config_path' = config_path /\ connect' = connect)]_vars

\* after a replacement of the connect function a create has failed and a recycle call
\* has fetched and returned; the replacement is still in place
C20_Witness ==
    /\ sets = 1 /\ connect = "always_fail"
    /\ lastCreate.done /\ ~lastCreate.result.ok /\ lastCreate.connect = connect
    /\ Returned /\ last.fetched # NoVal /\ recycle_count = fetches /\ fetches >= 1
    /\ \A t \in Tasks : pc[t] = "idle"

====
